---- MODULE Spec2Model ----
(***************************************************************************)
(* A model of sedkit/uncertainties.py: Monte-Carlo propagation of          *)
(* asymmetric uncertainties.                                               *)
(*                                                                         *)
(*   SpecSample  error_sample: the initial draw and the two rejection      *)
(*               resampling loops, one loop iteration per step.            *)
(*   SpecQuant   get_quantiles (Unum and UArray) followed by the           *)
(*               constructor call every operator ends with.                *)
(*   SpecInit    the constructors Unum.__init__ and UArray.__init__.       *)
(*   SpecOps     the Unum / UArray operators acting on a small heap of     *)
(*               values.                                                   *)
(*   SpecSampleFair  SpecSample under fair scheduling of the loops.        *)
(*   SpecPair    the Unum binary operators on two Unums of any two sample  *)
(*               counts.                                                   *)
(*   SpecPow     powers of a Unum with no uncertainty.                     *)
(*   SpecPrep    UArray._prep_dist on its own.                             *)
(*   SpecPool    UArray.sample_from_errors: the worker pool and its tasks. *)
(*                                                                         *)
(* Numbers are fixed-point integers, Scale units to 1.0.  Python's None is *)
(* the empty tuple and a present optional value v is <<v>>.                *)
(***************************************************************************)
EXTENDS Integers, Sequences, FiniteSets, TLC

VARIABLES
    pc,        \* error_sample: "draw", "low", "up" or "done"
    args,      \* error_sample: its arguments
    samples,   \* error_sample: the local array `samples`
    redrawn,   \* error_sample: the positions the latest loop iteration overwrote
    qpc,       \* get_quantiles: "call", "returned" or "raised"
    qin,       \* get_quantiles: self (kind, sig_figs, method) and the argument dist
    qout,      \* get_quantiles: what it returned
    made,      \* the value the operator builds from qout
    cpc,       \* constructor call: "call", "returned" or "raised"
    cargs,     \* constructor call: the class and the arguments
    cobj,      \* constructor call: the object built
    objs,      \* operators: the Unum and UArray objects alive, by identity
    ctor,      \* operators: the same objects as their constructors left them
    call,      \* operators: the latest operator call and its outcome
    prep,      \* _prep_dist: None, or the call with its arguments and result
    pool       \* UArray.sample_from_errors: None, or the caller, the pool and its tasks

sampleVars == <<pc, args, samples, redrawn>>
quantVars == <<qpc, qin, qout, made>>
initVars == <<cpc, cargs, cobj>>
opsVars == <<objs, ctor, call>>
prepVars == <<prep, pool>>
vars == <<sampleVars, quantVars, initVars, opsVars, prepVars>>
notSample == <<quantVars, initVars, opsVars, prepVars>>
notQuant == <<sampleVars, initVars, opsVars, prepVars>>
notInit == <<sampleVars, quantVars, opsVars, prepVars>>
notOps == <<sampleVars, quantVars, initVars, prepVars>>
notPrep == <<sampleVars, quantVars, initVars, opsVars>>

None == <<>>
Some(v) == <<v>>
Val(o) == o[1]

Range(s) == {s[i] : i \in DOMAIN s}

(***************************************************************************)
(* error_sample                                                            *)
(***************************************************************************)

\* Bounds of the sampling model.
MaxLen == 3      \* largest sample count n
Reach == 2       \* a draw lies within nominal -+ Reach
MidVal == 2      \* the nominal values are MidVal and MidVal + 1

SampleIdle ==
    /\ pc = "idle"
    /\ args = None
    /\ samples = <<>>
    /\ redrawn = {}

QuantIdle ==
    /\ qpc = "idle"
    /\ qin = None
    /\ qout = None
    /\ made = None

InitIdle ==
    /\ cpc = "idle"
    /\ cargs = None
    /\ cobj = None

OpsIdle ==
    /\ objs = <<>>
    /\ ctor = <<>>
    /\ call = None
    /\ prep = None
    /\ pool = None

\* np.random.normal(nominal, upper, k): a normal distribution has unbounded
\* support unless its scale is 0, when every draw is the location itself.
NormalSupport(nominal, upper) ==
    IF upper = 0 THEN {nominal} ELSE (nominal - Reach)..(nominal + Reach)

\* SkewNormal.sample(k) after fit(nominal, upper, lower): mu + sigma * u1 with
\* u1 a combination of two standard normal draws, unbounded as well.
SkewSupport(nominal, upper, lower) == (nominal - Reach)..(nominal + Reach)

\* The distribution error_sample draws from: `if (upper != lower)` picks the
\* skew-normal branch, else the gaussian branch.
Support(a) ==
    IF a.upper # a.lower THEN SkewSupport(a.nominal, a.upper, a.lower)
    ELSE NormalSupport(a.nominal, a.upper)

\* Mutant of LowIdx: the comparison is off by one unit.
LowIdx_off_by_one(s, low_lim) == {i \in DOMAIN s : s[i] < low_lim - 1}

\* idx = np.where(samples < low_lim)[0]
LowIdx(s, low_lim) == {i \in DOMAIN s : s[i] < low_lim}

\* idx = np.where(samples > up_lim)[0]
UpIdx(s, up_lim) == {i \in DOMAIN s : s[i] > up_lim}

\* The violators the lower-limit block works on: none when
\* `if low_lim is not None` is false.
LowViolators(a, s) ==
    IF a.low_lim = None THEN {} ELSE LowIdx(s, Val(a.low_lim))

\* The violators the upper-limit block works on: none when
\* `if up_lim is not None` is false.
UpViolators(a, s) ==
    IF a.up_lim = None THEN {} ELSE UpIdx(s, Val(a.up_lim))

\* Mutant of Overwrite: every sample is redrawn, violating or not.
Overwrite_all(s, idx, S) == [DOMAIN s -> S]

\* Mutant of Overwrite: the redraw leaves every sample as it was.
Overwrite_nothing(s, idx, S) == {s}

\* samples[idx] = <l_idx fresh draws>: every position of idx is overwritten
\* with a fresh draw, every other position keeps its value.
Overwrite(s, idx, S) ==
    {t \in [DOMAIN s -> S] : \A i \in DOMAIN s : i \notin idx => t[i] = s[i]}

ArgSet ==
    [nominal : {MidVal, MidVal + 1},
     upper   : {0, 1},
     lower   : {0, 1},
     n       : 1..MaxLen,
     low_lim : {None} \cup {Some(v) : v \in {MidVal, MidVal + 1}},
     up_lim  : {None} \cup {Some(v) : v \in {MidVal + 1, MidVal + 2}}]

InitSample ==
    /\ pc = "draw"
    /\ args \in ArgSet
    /\ samples = <<>>
    /\ redrawn = {}
    /\ QuantIdle
    /\ InitIdle
    /\ OpsIdle

\* samples = sknorm.sample(n)  /  samples = np.random.normal(nominal, upper, n)
Draw ==
    /\ pc = "draw"
    /\ samples' \in [1..args.n -> Support(args)]
    /\ pc' = "low"
    /\ redrawn' = {}
    /\ UNCHANGED <<args, notSample>>

\* One iteration of the lower-limit loop that finds violators and redraws them.
ResampleLow ==
    /\ pc = "low"
    /\ LowViolators(args, samples) # {}
    /\ samples' \in Overwrite(samples, LowViolators(args, samples), Support(args))
    /\ redrawn' = LowViolators(args, samples)
    /\ UNCHANGED <<pc, args, notSample>>

\* `if low_lim is not None` is false, or the loop reaches `break`.
LowDone ==
    /\ pc = "low"
    /\ LowViolators(args, samples) = {}
    /\ pc' = "up"
    /\ UNCHANGED <<args, samples, redrawn, notSample>>

\* One iteration of the upper-limit loop that finds violators and redraws them.
ResampleUp ==
    /\ pc = "up"
    /\ UpViolators(args, samples) # {}
    /\ samples' \in Overwrite(samples, UpViolators(args, samples), Support(args))
    /\ redrawn' = UpViolators(args, samples)
    /\ UNCHANGED <<pc, args, notSample>>

\* `if up_lim is not None` is false, or the loop reaches `break`; then
\* `return samples * (units or 1)`, which leaves every magnitude as it is.
UpDone ==
    /\ pc = "up"
    /\ UpViolators(args, samples) = {}
    /\ pc' = "done"
    /\ UNCHANGED <<args, samples, redrawn, notSample>>

NextSample == Draw \/ ResampleLow \/ LowDone \/ ResampleUp \/ UpDone

SpecSample == InitSample /\ [][NextSample]_vars

\* An iteration whose redraws all satisfy the limit of the loop.
CleanLowRedraw == ResampleLow /\ LowViolators(args, samples') = {}
CleanUpRedraw == ResampleUp /\ UpViolators(args, samples') = {}

\* error_sample keeps running until it returns, and the random redraws are
\* fair: an outcome that stays possible forever is eventually drawn.
SpecSampleFair ==
    /\ SpecSample
    /\ WF_vars(NextSample)
    /\ SF_vars(CleanLowRedraw)
    /\ SF_vars(CleanUpRedraw)

(***************************************************************************)
(* Numbers, quantities and rounding                                        *)
(***************************************************************************)

Decimals == 3                 \* decimal digits a model number carries

RECURSIVE Pow10(_)
Pow10(k) == IF k <= 0 THEN 1 ELSE 10 * Pow10(k - 1)

Scale == Pow10(Decimals)      \* model units to 1.0
Milli == Pow10(Decimals - 3)  \* model units to 0.001

Abs(x) == IF x < 0 THEN -x ELSE x

\* A plain number is [v, unit |-> None]; an astropy Quantity carries its unit.
Num(v) == [v |-> v, unit |-> None]
Qty(v, u) == [v |-> v, unit |-> u]

\* hasattr(x, 'unit')
HasUnit(x) == x.unit # None

\* The nearest multiple of quantum, ties to the even multiple (np.rint).
RoundToMultiple(x, quantum) ==
    LET lo == (x \div quantum) * quantum
        twice == 2 * (x - lo)
    IN  IF twice < quantum THEN lo
        ELSE IF twice > quantum THEN lo + quantum
        ELSE IF (x \div quantum) % 2 = 0 THEN lo ELSE lo + quantum

\* x.round(decimals): numpy rounds to the given number of decimal places.
Round(x, decimals) ==
    IF decimals >= Decimals THEN x
    ELSE RoundToMultiple(x, Pow10(Decimals - decimals))

(***************************************************************************)
(* get_quantiles                                                           *)
(***************************************************************************)

AlphaPercent == 68            \* alpha=0.68
DefaultSamples == 10000       \* n_samples=10000
DefaultSigFigs == 2           \* sig_figs=2

\* The sequence that holds at position i the value v with fewer than i
\* elements below it and at least i elements up to it; counts holds
\* <<v, elements below v, elements up to v>> for every value v.
Ranked(len, counts) ==
    [i \in 1..len |-> (CHOOSE c \in counts : c[2] < i /\ i <= c[3])[1]]

\* s in ascending order
SortAsc(s) ==
    Ranked(Len(s),
           {<<v, Cardinality({j \in DOMAIN s : s[j] < v}),
                 Cardinality({j \in DOMAIN s : s[j] <= v})>> : v \in Range(s)})

\* ordered_dist = dist[np.argsort(dist)]  /  np.sort(dist, axis=1), one row
Ordered(dist) == SortAsc(dist)

\* nsamples_at_each_side = int(nsamples * (alpha / 2.) + 1)
nsamples_at_each_side(nsamples) == (nsamples * AlphaPercent) \div 200 + 1

\* med_idx_upper, in both branches of `if nsamples % 2 == 0.0`
med_idx_upper(nsamples) ==
    IF nsamples % 2 = 0 THEN nsamples \div 2 + 1 ELSE nsamples \div 2

\* med_idx_lower, in both branches
med_idx_lower(nsamples) ==
    IF nsamples % 2 = 0 THEN med_idx_upper(nsamples) - 1 ELSE nsamples \div 2

\* Mutant of q_upper_idx: q_upper is read at the median.
q_upper_idx_at_median(nsamples) == med_idx_upper(nsamples)

\* The index q_upper is read at.
q_upper_idx(nsamples) == med_idx_upper(nsamples) + nsamples_at_each_side(nsamples)

\* Mutant of q_lower_idx: the offset is added instead of subtracted.
q_lower_idx_added(nsamples) == med_idx_lower(nsamples) + nsamples_at_each_side(nsamples)

\* The index q_lower is read at.
q_lower_idx(nsamples) == med_idx_lower(nsamples) - nsamples_at_each_side(nsamples)

\* a[i] of a numpy array of length n: i counts from 0, a negative i counts
\* from the end, anything outside -n..n-1 raises IndexError.
IndexOk(n, i) == -n <= i /\ i < n
At(a, i) == IF i >= 0 THEN a[i + 1] ELSE a[Len(a) + i + 1]

\* Every index get_quantiles reads for a distribution of nsamples samples.
IndicesRead(nsamples) ==
    {med_idx_upper(nsamples), med_idx_lower(nsamples),
     q_upper_idx(nsamples), q_lower_idx(nsamples)}

\* get_quantiles raises IndexError at the first read outside the array.
RaisesIndexError(nsamples) == \E i \in IndicesRead(nsamples) : ~IndexOk(nsamples, i)

\* param: the two-element mean of the even branch (exact here for samples that
\* are even multiples of the model unit), the single element of the odd branch.
Param(ordered_dist) ==
    LET nsamples == Len(ordered_dist)
    IN  IF nsamples % 2 = 0
        THEN (At(ordered_dist, med_idx_upper(nsamples))
              + At(ordered_dist, med_idx_lower(nsamples))) \div 2
        ELSE At(ordered_dist, med_idx_upper(nsamples))

\* (param, q_upper - param, param - q_lower) of one distribution, before the
\* rounding of the return statement.
RawQuantiles(dist) ==
    LET ordered_dist == Ordered(dist)
        nsamples == Len(dist)
        param == Param(ordered_dist)
        q_upper == At(ordered_dist, q_upper_idx(nsamples))
        q_lower == At(ordered_dist, q_lower_idx(nsamples))
    IN  <<param, q_upper - param, param - q_lower>>

\* The return statement: each of the three is .round(self.sig_figs).
RoundedQuantiles(dist, sig_figs) ==
    LET raw == RawQuantiles(dist)
    IN  <<Round(raw[1], sig_figs), Round(raw[2], sig_figs), Round(raw[3], sig_figs)>>

\* units = dist.unit if hasattr(dist, 'unit') and dist.unit != '' else 1;
\* multiplying by 1 leaves a plain number.
Dimensionless == <<"">>
ResultUnit(unit) == IF unit # None /\ unit # Dimensionless THEN unit ELSE None

\* A distribution is [v, unit]: v holds its rows of samples, one row for a
\* one-dimensional distribution and one row per element otherwise.
Dist(rows, unit) == [v |-> rows, unit |-> unit]

\* Unum.get_quantiles(dist) of a one-dimensional distribution.
Unum_get_quantiles(self, dist) ==
    IF RaisesIndexError(Len(dist.v[1])) THEN [raised |-> "IndexError"]
    ELSE LET r == RoundedQuantiles(dist.v[1], self.sig_figs)
             u == ResultUnit(dist.unit)
         IN  [raised |-> "no", param |-> Qty(r[1], u),
              upper |-> Qty(r[2], u), lower |-> Qty(r[3], u)]

\* UArray.get_quantiles(dist): every column read applies to all rows at once.
UArray_get_quantiles(self, dist) ==
    IF RaisesIndexError(Len(dist.v[1])) THEN [raised |-> "IndexError"]
    ELSE LET r == [e \in DOMAIN dist.v |-> RoundedQuantiles(dist.v[e], self.sig_figs)]
             u == ResultUnit(dist.unit)
         IN  [raised |-> "no",
              param |-> Qty([e \in DOMAIN r |-> r[e][1]], u),
              upper |-> Qty([e \in DOMAIN r |-> r[e][2]], u),
              lower |-> Qty([e \in DOMAIN r |-> r[e][3]], u)]

(***************************************************************************)
(* Unum.__init__ and UArray.__init__                                       *)
(***************************************************************************)

\* bool(x) of a number or a scalar Quantity: false exactly for a zero value.
Truthy(x) == x.v # 0

\* x.value if hasattr(x, 'unit') else x
Magnitude(x) == x.v

\* Unum(nominal, upper, lower, n_samples, sig_figs, method); lower is None or
\* Some(value).
\*   self.lower  = lower or self.upper
\*   self._lower = lower.value if hasattr(lower, 'unit') else lower or self._upper
Unum_init(nominal, upper, lower, n_samples, sig_figs, method) ==
    [kind     |-> "Unum",
     nominal  |-> nominal,
     _nominal |-> Magnitude(nominal),
     upper    |-> upper,
     _upper   |-> Magnitude(upper),
     lower    |-> IF lower # None /\ Truthy(Val(lower)) THEN Val(lower) ELSE upper,
     _lower   |-> IF lower # None /\ HasUnit(Val(lower)) THEN Magnitude(Val(lower))
                  ELSE IF lower # None /\ Truthy(Val(lower)) THEN Magnitude(Val(lower))
                  ELSE Magnitude(upper),
     units    |-> nominal.unit,
     n        |-> n_samples,
     sig_figs |-> sig_figs,
     method   |-> method]

\* x.shape of a one-dimensional array
Shape(x) == <<Len(x.v)>>

\* The two shape validations that open UArray.__init__.
UArray_init_raises(nominal, upper, lower) ==
    \/ Shape(upper) # Shape(nominal)
    \/ (lower # None /\ Shape(Val(lower)) # Shape(nominal))

\* UArray(nominal, upper, lower, n_samples, sig_figs, method) past validation.
\*   self.lower  = self.upper if lower is None else lower
\*   self._lower = self._upper if lower is None else (lower.value if ... else lower)
UArray_init(nominal, upper, lower, n_samples, sig_figs, method) ==
    [kind     |-> "UArray",
     nominal  |-> nominal,
     _nominal |-> Magnitude(nominal),
     upper    |-> upper,
     _upper   |-> Magnitude(upper),
     lower    |-> IF lower = None THEN upper ELSE Val(lower),
     _lower   |-> IF lower = None THEN Magnitude(upper) ELSE Magnitude(Val(lower)),
     units    |-> nominal.unit,
     n        |-> n_samples,
     sig_figs |-> sig_figs,
     method   |-> method]

\* Unum(*self.get_quantiles(dist3)) / UArray(*self.get_quantiles(dist3)): the
\* last line of every operator, given what get_quantiles returned.
FromQuantiles(kind, r) ==
    IF kind = "Unum"
    THEN Unum_init(r.param, r.upper, Some(r.lower), DefaultSamples, DefaultSigFigs, "median")
    ELSE UArray_init(r.param, r.upper, Some(r.lower), DefaultSamples, DefaultSigFigs, "median")

(***************************************************************************)
(* SpecQuant: get_quantiles on bounded distributions                       *)
(***************************************************************************)

SmallN == 5          \* up to this many samples every arrangement of values is tried
MaxQuantN == 14      \* largest sample count of a distribution

ValA == -1500 * Milli         \* -1.5
ValB == 124 * Milli           \* 0.124
ValC == 12345678 * Milli      \* 12345.678

\* nsamples samples: a of them ValA, b of them ValB, the rest ValC, laid out in
\* descending blocks and rotated by r places.
Arranged(nsamples, a, b, r) ==
    LET block == [i \in 1..nsamples |->
                    IF i <= nsamples - a - b THEN ValC
                    ELSE IF i <= nsamples - a THEN ValB ELSE ValA]
    IN  [i \in 1..nsamples |-> block[((i + r - 1) % nsamples) + 1]]

Dists(nsamples) ==
    IF nsamples <= SmallN THEN [1..nsamples -> {ValA, ValB, ValC}]
    ELSE {Arranged(nsamples, ab[1], ab[2], r) :
            ab \in {x \in (0..nsamples) \X (0..nsamples) : x[1] + x[2] <= nsamples},
            r \in 0..(nsamples - 1)}

\* The fields of self that get_quantiles reads.
QuantSelf(kind, sig_figs, method) ==
    [kind |-> kind, sig_figs |-> sig_figs, method |-> method]

QuantInputs ==
    {[self |-> QuantSelf(k, sf, "median"), dist |-> Dist(<<d>>, u)] :
        k \in {"Unum", "UArray"}, sf \in {0, DefaultSigFigs}, u \in {None, <<"um">>},
        d \in UNION {Dists(nsamples) : nsamples \in 1..SmallN}}
    \cup
    {[self |-> QuantSelf(k, DefaultSigFigs, "median"), dist |-> Dist(<<d>>, None)] :
        k \in {"Unum", "UArray"},
        d \in UNION {Dists(nsamples) : nsamples \in (SmallN + 1)..MaxQuantN}}
    \cup
    {[self |-> QuantSelf("UArray", DefaultSigFigs, "median"), dist |-> Dist(<<d1, d2>>, None)] :
        d1 \in [1..SmallN -> {ValA, ValC}], d2 \in [1..SmallN -> {ValB, ValC}]}

InitQuant ==
    /\ qpc = "call"
    /\ qin \in QuantInputs
    /\ qout = None
    /\ made = None
    /\ SampleIdle
    /\ InitIdle
    /\ OpsIdle

\* self.get_quantiles(dist)
GetQuantiles(self, dist) ==
    IF self.kind = "Unum" THEN Unum_get_quantiles(self, dist)
    ELSE UArray_get_quantiles(self, dist)

\* self.get_quantiles(dist) raises.
ReduceRaises ==
    /\ qpc = "call"
    /\ qout' = GetQuantiles(qin.self, qin.dist)
    /\ qout'.raised # "no"
    /\ made' = None
    /\ qpc' = "raised"
    /\ UNCHANGED <<qin, notQuant>>

\* self.get_quantiles(dist) returns and the operator builds its result from it.
ReduceReturns ==
    /\ qpc = "call"
    /\ qout' = GetQuantiles(qin.self, qin.dist)
    /\ qout'.raised = "no"
    /\ made' = Some(FromQuantiles(qin.self.kind, qout'))
    /\ qpc' = "returned"
    /\ UNCHANGED <<qin, notQuant>>

NextQuant == ReduceRaises \/ ReduceReturns

SpecQuant == InitQuant /\ [][NextQuant]_vars

(***************************************************************************)
(* SpecInit: the constructors on bounded arguments                         *)
(***************************************************************************)

Metre == <<"m">>

\* The arrays of one or two elements over the given magnitudes.
ArraysOf(values) == UNION {[1..len -> values] : len \in 1..2}

\* Unum(nominal, upper[, lower][, n_samples]) calls in unit u (None: plain
\* numbers).
UnumCallsIn(u) ==
    {[class |-> "Unum", nominal |-> Qty(5 * Scale, u), upper |-> Qty(up, u),
      lower |-> lo, n_samples |-> ns] :
        up \in {0, Scale},
        lo \in {None} \cup {Some(Qty(x, u)) : x \in {0, 2 * Scale}},
        ns \in {5, DefaultSamples}}

UnumCalls == UnumCallsIn(None) \cup UnumCallsIn(Metre)

\* UArray(nominal, upper[, lower][, n_samples]) calls in unit u.
UArrayCallsIn(u) ==
    {[class |-> "UArray", nominal |-> Qty(nom, u), upper |-> Qty(up, u),
      lower |-> lo, n_samples |-> ns] :
        nom \in ArraysOf({5 * Scale}), up \in ArraysOf({Scale}),
        lo \in {None} \cup {Some(Qty(x, u)) : x \in ArraysOf({0, 2 * Scale})},
        ns \in {5, DefaultSamples}}

UArrayCalls == UArrayCallsIn(None) \cup UArrayCallsIn(Metre)

InitInit ==
    /\ cpc = "call"
    /\ \/ cargs \in UnumCalls
       \/ cargs \in UArrayCalls
    /\ cobj = None
    /\ SampleIdle
    /\ QuantIdle
    /\ OpsIdle

\* Unum.__init__ runs to its end: it validates nothing.
ConstructUnum ==
    /\ cpc = "call"
    /\ cargs.class = "Unum"
    /\ cobj' = Some(Unum_init(cargs.nominal, cargs.upper, cargs.lower,
                              cargs.n_samples, DefaultSigFigs, "median"))
    /\ cpc' = "returned"
    /\ UNCHANGED <<cargs, notInit>>

\* UArray.__init__ raises ValueError on a shape mismatch.
ConstructUArrayRaises ==
    /\ cpc = "call"
    /\ cargs.class = "UArray"
    /\ UArray_init_raises(cargs.nominal, cargs.upper, cargs.lower)
    /\ cpc' = "raised"
    /\ UNCHANGED <<cargs, cobj, notInit>>

\* UArray.__init__ stores its arguments.
ConstructUArray ==
    /\ cpc = "call"
    /\ cargs.class = "UArray"
    /\ ~UArray_init_raises(cargs.nominal, cargs.upper, cargs.lower)
    /\ cobj' = Some(UArray_init(cargs.nominal, cargs.upper, cargs.lower,
                                cargs.n_samples, DefaultSigFigs, "median"))
    /\ cpc' = "returned"
    /\ UNCHANGED <<cargs, notInit>>

NextInit == ConstructUnum \/ ConstructUArrayRaises \/ ConstructUArray

SpecInit == InitInit /\ [][NextInit]_vars

(***************************************************************************)
(* Units (the external unit system)                                        *)
(***************************************************************************)

Kilometre == <<"km">>
Second == <<"s">>

\* The physical dimension of a unit; None has none.
Dimension(u) ==
    IF u = None THEN "none"
    ELSE IF u = Metre \/ u = Kilometre THEN "length"
    ELSE IF u = Second THEN "time"
    ELSE "other"

\* equivalent(units1, units2) of sedkit.utilities: the unit system's
\* equivalence predicate, "no unit" being equivalent to "no unit".
equivalent(u1, u2) == Dimension(u1) = Dimension(u2)

\* How many metres one of the unit is (1 for units that are not lengths).
InMetres(u) == IF u = Kilometre THEN 1000 ELSE 1

\* The magnitude x of unit `from` expressed in the equivalent unit `to`.
ConvertTo(x, from, to) ==
    IF from = None \/ to = None THEN x ELSE (x * InMetres(from)) \div InMetres(to)

\* unit ** k
RECURSIVE UnitPower(_, _)
UnitPower(u, k) == IF k <= 0 \/ u = None THEN None ELSE u \o UnitPower(u, k - 1)

(***************************************************************************)
(* Arrays and elementwise arithmetic                                       *)
(***************************************************************************)

\* A numpy array, Quantity or Python number of at most two dimensions:
\*   v     its rows (a one-dimensional array and a scalar have one row),
\*   ndim  its number of dimensions, unit its unit (None for a plain array),
\*   num   TRUE for a Python int or float.
Arr(rows, ndim, unit, num) == [v |-> rows, ndim |-> ndim, unit |-> unit, num |-> num]

NRows(a) == Len(a.v)
NCols(a) == Len(a.v[1])

\* a.shape
ShapeOf(a) ==
    IF a.ndim = 0 THEN <<>>
    ELSE IF a.ndim = 1 THEN <<NCols(a)>>
    ELSE <<NRows(a), NCols(a)>>

Max(x, y) == IF x >= y THEN x ELSE y

\* numpy broadcasting of two arrays of at most two dimensions: trailing axes
\* are aligned and each pair of lengths must be equal or contain a 1.
Broadcastable(a, b) ==
    /\ (NRows(a) = NRows(b) \/ NRows(a) = 1 \/ NRows(b) = 1)
    /\ (NCols(a) = NCols(b) \/ NCols(a) = 1 \/ NCols(b) = 1)

\* Element (i, j) of a once it is broadcast.
BAt(a, i, j) ==
    a.v[IF NRows(a) = 1 THEN 1 ELSE i][IF NCols(a) = 1 THEN 1 ELSE j]

RECURSIVE PowFix(_, _)
\* x ** k for a whole number k >= 0
PowFix(x, k) == IF k = 0 THEN Scale ELSE (PowFix(x, k - 1) * x) \div Scale

\* The fraction bits of log10(y) for 1 <= y < 10, y in thousandths: square,
\* and take a bit whenever the square reaches 10.
RECURSIVE LogBits(_, _, _)
LogBits(y, bit, left) ==
    IF left = 0 THEN 0
    ELSE LET sq == (y * y) \div 1000
         IN  IF sq >= 10000 THEN bit + LogBits(sq \div 10, bit \div 2, left - 1)
             ELSE LogBits(sq, bit \div 2, left - 1)

RECURSIVE Log10Fix(_)
\* np.log10(x) of a positive x, to the resolution of the model
Log10Fix(x) ==
    IF x >= 10 * Scale THEN Scale + Log10Fix(x \div 10)
    ELSE IF x < Scale THEN Log10Fix(x * 10) - Scale
    ELSE LogBits(x \div Milli, Scale \div 2, 10)

RECURSIVE Horner(_, _, _)
Horner(coeffs, x, acc) ==
    IF coeffs = <<>> THEN acc
    ELSE Horner(Tail(coeffs), x, (acc * x) \div Scale + Head(coeffs))

\* np.polyval(coeffs, x), the coefficients in descending order
PolyvalFix(coeffs, x) == Horner(coeffs, x, 0)

\* dist1 <op> dist2 on two magnitudes, y already in the unit of x where the
\* operation converts it.
Elementwise(op, x, y) ==
    CASE op = "add" -> x + y
      [] op = "sub" -> x - y
      [] op = "mul" -> (x * y) \div Scale
      [] op = "truediv" -> (x * Scale) \div y
      [] op = "floordiv" -> (x \div y) * Scale

\* Operations in which the unit system converts the second operand to the
\* unit of the first.
Converts(op) == op \in {"add", "sub", "floordiv"}

\* The unit of dist1 <op> dist2.
MathUnit(op, u1, u2) ==
    CASE op \in {"add", "sub"} -> u1
      [] op = "mul" -> u1 \o u2
      [] op = "truediv" ->
            IF u2 = None THEN u1
            ELSE IF u1 = u2 THEN Dimensionless
            ELSE u1 \o <<"/">> \o u2
      [] op = "floordiv" -> IF u1 = None /\ u2 = None THEN None ELSE Dimensionless

\* dist3 = dist1 <op> dist2 for broadcastable operands.
Math(op, a, b) ==
    Arr([i \in 1..Max(NRows(a), NRows(b)) |->
           [j \in 1..Max(NCols(a), NCols(b)) |->
              Elementwise(op, BAt(a, i, j),
                          IF Converts(op) THEN ConvertTo(BAt(b, i, j), b.unit, a.unit)
                          ELSE BAt(b, i, j))]],
        Max(a.ndim, b.ndim), MathUnit(op, a.unit, b.unit), FALSE)

\* f applied to every element of a, the result in unit u.
MapArr(f(_), a, u) ==
    Arr([i \in 1..NRows(a) |-> [j \in 1..NCols(a) |-> f(a.v[i][j])]], a.ndim, u, FALSE)

(***************************************************************************)
(* Operands, sampling and the checks that open an operator                 *)
(***************************************************************************)

\* The operand of an operator call: an object of the heap (kind "object",
\* id its identity) or a value carried in arr.  Kinds: "number" (int or
\* float), "Quantity", "ndarray", "str", "unit" (the argument of to) and
\* "none" (log10 takes no operand).
Opnd(kind, id, arr) == [kind |-> kind, id |-> id, arr |-> arr]

Scalar(x) == Arr(<<<<x>>>>, 0, None, TRUE)
NoOperand == Opnd("none", 0, Scalar(0))
Ref(id) == Opnd("object", id, Scalar(0))
Number(x) == Opnd("number", 0, Scalar(x))
Quantity(x, u) == Opnd("Quantity", 0, Arr(<<<<x>>>>, 0, u, FALSE))
NdArray(row) == Opnd("ndarray", 0, Arr(<<row>>, 1, None, FALSE))
Str == Opnd("str", 0, Scalar(0))
UnitArg(u) == Opnd("unit", 0, Arr(<<<<0>>>>, 0, u, FALSE))

\* isinstance(other, Unum), isinstance(other, UArray)
IsUnum(heap, other) == other.kind = "object" /\ heap[other.id].kind = "Unum"
IsUArray(heap, other) == other.kind = "object" /\ heap[other.id].kind = "UArray"

\* isinstance(other, VALID_SHAPES):
\*   VALID_SHAPES = int, float, Unum, UArray, q.quantity.Quantity, q.core.PrefixUnit
IsValidShapes(other) == other.kind \in {"number", "object", "Quantity"}

\* units = other.unit if hasattr(other, 'unit')
\*         else other.units if hasattr(other, 'units') else None
OtherUnits(heap, other) ==
    IF other.kind = "Quantity" THEN other.arr.unit
    ELSE IF other.kind = "object" THEN heap[other.id].units
    ELSE None

\* other.shape of an array-shaped operand
OtherShape(heap, other) ==
    IF other.kind = "object" THEN Shape(heap[other.id].nominal) ELSE ShapeOf(other.arr)

\* UArray._validate_shape(other): "ok", or why it raises ValueError.
validate_shape(heap, self, other) ==
    IF IsValidShapes(other) THEN "ok"
    ELSE IF other.kind = "ndarray" \/ IsUArray(heap, other)
         THEN IF OtherShape(heap, other) # Shape(self.nominal) THEN "shape" ELSE "ok"
    ELSE "type"

\* The operators that validate units before sampling.
ChecksUnits_always(op) == TRUE
ChecksUnits(op) == op \in {"add", "sub", "floordiv"}

\* Mutant of OpSupport: a draw misses the nominal by one unit.
OpSupport_shifted(nominal, upper, lower) == {nominal + 1}

\* The values a draw of error_sample(nominal, upper, lower, ...) is taken
\* from here: one on each side of the nominal, the nominal alone when both
\* errors are 0.
OpSupport(nominal, upper, lower) == {nominal - lower, nominal + upper}

\* Unum.sample_from_errors(): the arrays of self.n samples it can return.
Unum_sample_from_errors(self) ==
    {Arr(<<row>>, 1, self.units, FALSE) :
        row \in [1..self.n -> OpSupport(self._nominal, self._upper, self._lower)]}

RECURSIVE RowsUpTo(_, _)
\* One row of self.n samples for each of the first e elements.
RowsUpTo(self, e) ==
    IF e = 0 THEN {<<>>}
    ELSE {Append(m, row) :
            m \in RowsUpTo(self, e - 1),
            row \in [1..self.n -> OpSupport(self._nominal[e], self._upper[e], self._lower[e])]}

\* UArray.sample_from_errors(): one error_sample call per element, stacked.
UArray_sample_from_errors(self) ==
    {Arr(m, 2, self.units, FALSE) : m \in RowsUpTo(self, Len(self._nominal))}

\* np.asarray([dist2]).squeeze() * dunits: the axes of length 1 removed.
Squeeze(a) ==
    IF NRows(a) = 1 /\ NCols(a) = 1 THEN Arr(a.v, 0, a.unit, FALSE)
    ELSE IF NRows(a) = 1 THEN Arr(a.v, 1, a.unit, FALSE)
    ELSE IF NCols(a) = 1
         THEN Arr(<<[i \in 1..NRows(a) |-> a.v[i][1]]>>, 1, a.unit, FALSE)
    ELSE Arr(a.v, 2, a.unit, FALSE)

\* UArray._prep_dist(dist1, dist2)
prep_dist(dist1, dist2) ==
    LET d == IF dist2.num \/ dist2.unit # None THEN Squeeze(dist2) ELSE dist2
    IN  IF d.ndim = 1
        THEN IF NCols(d) = NCols(dist1)
             THEN Arr(d.v, 2, d.unit, FALSE)
             ELSE Arr([i \in 1..NCols(d) |-> <<d.v[1][i]>>], 2, d.unit, FALSE)
        ELSE d

(***************************************************************************)
(* The operators                                                           *)
(***************************************************************************)

\* How an operator call ended:
\*   raised   "no" or the exception,
\*   why      "none", or what the exception is about: "units" (the unit
\*            validation), "shape" and "type" (the operand), "broadcast" (the
\*            two distributions cannot be combined), "unit_system" (raised
\*            inside the unit library), "attribute", "index" (get_quantiles),
\*   sampled  how many sample_from_errors calls were made,
\*   checked  whether equivalent(...) was evaluated,
\*   result   None or the object returned,
\*   lens     the lengths of the sample axes of dist1 and dist2 when the
\*            arithmetic was attempted, <<>> when it was not.
Outcome(raised, why, sampled, checked, result) ==
    [raised |-> raised, why |-> why, sampled |-> sampled, checked |-> checked,
     result |-> result, lens |-> <<>>]

\* return Unum(*self.get_quantiles(dist3)) / UArray(*self.get_quantiles(dist3))
Reduce(self, dist3, sampled, checked) ==
    LET r == IF self.kind = "Unum" THEN Unum_get_quantiles(self, dist3)
             ELSE UArray_get_quantiles(self, dist3)
    IN  IF r.raised # "no" THEN Outcome("IndexError", "index", sampled, checked, None)
        ELSE Outcome("no", "none", sampled, checked, Some(FromQuantiles(self.kind, r)))

\* The unit library refuses dist1 <op> dist2 when it has to convert dist2 to
\* the unit of dist1 and cannot.
UnitSystemRejects(op, a, b) == Converts(op) /\ Dimension(a.unit) # Dimension(b.unit)

\* dist3 = dist1 <op> dist2 and the reduction; numeric is FALSE when dist2 is
\* not something arithmetic is defined on (a str, an object left unsampled).
Combine(op, self, numeric, dist1, dist2, sampled, checked) ==
    [(IF ~numeric
      THEN Outcome("TypeError", "type", sampled, checked, None)
      ELSE IF ~Broadcastable(dist1, dist2)
      THEN Outcome("ValueError", "broadcast", sampled, checked, None)
      ELSE IF UnitSystemRejects(op, dist1, dist2)
      THEN Outcome("UnitConversionError", "unit_system", sampled, checked, None)
      ELSE Reduce(self, Math(op, dist1, dist2), sampled, checked))
     EXCEPT !.lens = <<NCols(dist1), NCols(dist2)>>]

\* Unum.__add__, __sub__, __mul__, __truediv__, __floordiv__ (self, other):
\* the outcomes the call can have.
Unum_binary(heap, op, self, other) ==
    IF ChecksUnits(op) /\ ~equivalent(self.units, OtherUnits(heap, other))
    THEN {Outcome("TypeError", "units", 0, TRUE, None)}
    ELSE {Combine(op, self, other.kind # "str" /\ ~IsUArray(heap, other), dist1, dist2,
                  IF IsUnum(heap, other) THEN 2 ELSE 1, ChecksUnits(op)) :
            dist1 \in Unum_sample_from_errors(self),
            dist2 \in IF IsUnum(heap, other)
                      THEN Unum_sample_from_errors(heap[other.id])
                      ELSE {other.arr}}

\* if isinstance(other, (Unum, UArray)): other.n = self.n
\* reached when _validate_shape has not raised.
SyncSamples(heap, self, other) ==
    IF validate_shape(heap, self, other) = "ok" /\ other.kind = "object"
    THEN [heap EXCEPT ![other.id].n = self.n]
    ELSE heap

\* other.sample_from_errors() if isinstance(other, (Unum, UArray)) else other
OtherDists(heap, other) ==
    IF IsUnum(heap, other) THEN Unum_sample_from_errors(heap[other.id])
    ELSE IF IsUArray(heap, other) THEN UArray_sample_from_errors(heap[other.id])
    ELSE {other.arr}

\* UArray.__add__, __sub__, __mul__, __truediv__, __floordiv__ (self, other):
\* the outcomes the call can have; heap is the heap before the call.
UArray_binary(heap, op, id, other) ==
    LET self == heap[id]
        synced == SyncSamples(heap, self, other)
        why == validate_shape(heap, self, other)
    IN  IF why # "ok" THEN {Outcome("ValueError", why, 0, FALSE, None)}
        ELSE IF ChecksUnits(op) /\ ~equivalent(self.units, OtherUnits(synced, other))
        THEN {Outcome("TypeError", "units", 0, TRUE, None)}
        ELSE {Combine(op, synced[id], TRUE, dist1, prep_dist(dist1, dist2),
                      IF other.kind = "object" THEN 2 ELSE 1, ChecksUnits(op)) :
                dist1 \in UArray_sample_from_errors(synced[id]),
                dist2 \in OtherDists(synced, other)}

\* self.sample_from_errors() of either class
SampleSelf(self) ==
    IF self.kind = "Unum" THEN Unum_sample_from_errors(self)
    ELSE UArray_sample_from_errors(self)

\* __pow__(self, exp): dist3 = np.power(dist1, exp)
Power(self, exp) ==
    {Reduce(self, MapArr(LAMBDA x : PowFix(x, exp), dist1, UnitPower(dist1.unit, exp)),
            1, FALSE) : dist1 \in SampleSelf(self)}

\* log10(self): dist3 = np.log10(dist1), which the unit library refuses for
\* a quantity that is not dimensionless.
Log10(self) ==
    {IF dist1.unit \notin {None, Dimensionless}
     THEN Outcome("UnitTypeError", "unit_system", 1, FALSE, None)
     ELSE Reduce(self, MapArr(Log10Fix, dist1, dist1.unit), 1, FALSE) :
        dist1 \in SampleSelf(self)}

\* polyval(self, coeffs): the samples lose their unit, then np.polyval.
Polyval(self, coeffs) ==
    {Reduce(self, MapArr(LAMBDA x : PolyvalFix(coeffs, x), dist1, None), 1, FALSE) :
        dist1 \in SampleSelf(self)}

\* Unum.to(units)
Unum_to(self, units) ==
    IF ~equivalent(self.units, units)
    THEN Outcome("TypeError", "units", 0, TRUE, None)
    ELSE IF self.units = None
    THEN Outcome("AttributeError", "attribute", 0, TRUE, None)
    ELSE LET to(x) == Qty(ConvertTo(x.v, x.unit, units), units)
         IN  Outcome("no", "none", 0, TRUE,
                     Some(Unum_init(to(self.nominal), to(self.upper), Some(to(self.lower)),
                                    DefaultSamples, DefaultSigFigs, "median")))

\* UArray.to(units)
UArray_to(self, units) ==
    IF ~equivalent(self.units, units)
    THEN Outcome("TypeError", "units", 0, TRUE, None)
    ELSE IF self.units = None
    THEN Outcome("AttributeError", "attribute", 0, TRUE, None)
    ELSE LET to(x) == Qty([e \in DOMAIN x.v |-> ConvertTo(x.v[e], x.unit, units)], units)
         IN  Outcome("no", "none", 0, TRUE,
                     Some(UArray_init(to(self.nominal), to(self.upper), Some(to(self.lower)),
                                      DefaultSamples, DefaultSigFigs, "median")))

(***************************************************************************)
(* SpecOps: operator calls on a heap of four values                        *)
(***************************************************************************)

\* The heap: a plain Unum, a Unum in metres with no error, a plain UArray of
\* two elements and a UArray in metres of one element with no error.  What
\* an operator returns carries DefaultSamples samples and is not used as an
\* operand again.
Heap ==
    <<Unum_init(Num(2 * Scale), Num(Scale \div 2), None, 5, DefaultSigFigs, "median"),
      Unum_init(Qty(2 * Scale, Metre), Qty(0, Metre), None, 5, DefaultSigFigs, "median"),
      UArray_init(Num(<<2 * Scale, Scale>>), Num(<<Scale \div 2, 0>>), None,
                  5, DefaultSigFigs, "median"),
      UArray_init(Qty(<<2 * Scale>>, Metre), Qty(<<0>>, Metre), None,
                  6, DefaultSigFigs, "median")>>

\* The identities of the objects alive, and those of each class.
Ids == DOMAIN objs
UnumIds == {i \in Ids : objs[i].kind = "Unum"}
UArrayIds == {i \in Ids : objs[i].kind = "UArray"}

\* What a binary operator is called with.
Scalars ==
    {Ref(i) : i \in Ids}
    \cup {Number(2 * Scale), Quantity(Scale, Kilometre), Quantity(Scale, Second), Str}
Arrays == {NdArray(<<Scale>>), NdArray(<<Scale, 2 * Scale>>), NdArray(<<Scale, Scale, Scale>>)}
Exponents == {2, 3}
Coefficients == {<<Scale, 0, Scale>>}
Units == {None, Metre, Kilometre, Second}

InitOps ==
    /\ objs = Heap
    /\ ctor = Heap
    /\ call = None
    /\ prep = None
    /\ pool = None
    /\ SampleIdle
    /\ QuantIdle
    /\ InitIdle

\* The record of a call: the operator, self, the operand, the heap before the
\* call and the outcome.
Called(op, self, other, out) ==
    Some([op |-> op, self |-> self, other |-> other, before |-> objs, out |-> out])

\* Unum.__add__(self, other)
Unum_add ==
    /\ call = None
    /\ \E self \in UnumIds, other \in Scalars :
         \E out \in Unum_binary(objs, "add", objs[self], other) :
            call' = Called("add", self, other, out)
    /\ UNCHANGED <<objs, ctor, notOps>>

\* Unum.__sub__(self, other)
Unum_sub ==
    /\ call = None
    /\ \E self \in UnumIds, other \in Scalars :
         \E out \in Unum_binary(objs, "sub", objs[self], other) :
            call' = Called("sub", self, other, out)
    /\ UNCHANGED <<objs, ctor, notOps>>

\* Unum.__mul__(self, other)
Unum_mul ==
    /\ call = None
    /\ \E self \in UnumIds, other \in Scalars :
         \E out \in Unum_binary(objs, "mul", objs[self], other) :
            call' = Called("mul", self, other, out)
    /\ UNCHANGED <<objs, ctor, notOps>>

\* Unum.__truediv__(self, other)
Unum_truediv ==
    /\ call = None
    /\ \E self \in UnumIds, other \in Scalars :
         \E out \in Unum_binary(objs, "truediv", objs[self], other) :
            call' = Called("truediv", self, other, out)
    /\ UNCHANGED <<objs, ctor, notOps>>

\* Unum.__floordiv__(self, other)
Unum_floordiv ==
    /\ call = None
    /\ \E self \in UnumIds, other \in Scalars :
         \E out \in Unum_binary(objs, "floordiv", objs[self], other) :
            call' = Called("floordiv", self, other, out)
    /\ UNCHANGED <<objs, ctor, notOps>>

\* UArray.__add__(self, other)
UArray_add ==
    /\ call = None
    /\ \E self \in UArrayIds, other \in Scalars \cup Arrays :
         /\ objs' = SyncSamples(objs, objs[self], other)
         /\ \E out \in UArray_binary(objs, "add", self, other) :
               call' = Called("add", self, other, out)
    /\ UNCHANGED <<ctor, notOps>>

\* UArray.__sub__(self, other)
UArray_sub ==
    /\ call = None
    /\ \E self \in UArrayIds, other \in Scalars \cup Arrays :
         /\ objs' = SyncSamples(objs, objs[self], other)
         /\ \E out \in UArray_binary(objs, "sub", self, other) :
               call' = Called("sub", self, other, out)
    /\ UNCHANGED <<ctor, notOps>>

\* UArray.__mul__(self, other)
UArray_mul ==
    /\ call = None
    /\ \E self \in UArrayIds, other \in Scalars \cup Arrays :
         /\ objs' = SyncSamples(objs, objs[self], other)
         /\ \E out \in UArray_binary(objs, "mul", self, other) :
               call' = Called("mul", self, other, out)
    /\ UNCHANGED <<ctor, notOps>>

\* UArray.__truediv__(self, other)
UArray_truediv ==
    /\ call = None
    /\ \E self \in UArrayIds, other \in Scalars \cup Arrays :
         /\ objs' = SyncSamples(objs, objs[self], other)
         /\ \E out \in UArray_binary(objs, "truediv", self, other) :
               call' = Called("truediv", self, other, out)
    /\ UNCHANGED <<ctor, notOps>>

\* UArray.__floordiv__(self, other)
UArray_floordiv ==
    /\ call = None
    /\ \E self \in UArrayIds, other \in Scalars \cup Arrays :
         /\ objs' = SyncSamples(objs, objs[self], other)
         /\ \E out \in UArray_binary(objs, "floordiv", self, other) :
               call' = Called("floordiv", self, other, out)
    /\ UNCHANGED <<ctor, notOps>>

\* Unum.__pow__ and UArray.__pow__
Pow ==
    /\ call = None
    /\ \E self \in Ids, exp \in Exponents :
         \E out \in Power(objs[self], exp) :
            call' = Called("pow", self, Number(exp * Scale), out)
    /\ UNCHANGED <<objs, ctor, notOps>>

\* Unum.log10 and UArray.log10
Log ==
    /\ call = None
    /\ \E self \in Ids :
         \E out \in Log10(objs[self]) :
            call' = Called("log10", self, NoOperand, out)
    /\ UNCHANGED <<objs, ctor, notOps>>

\* Unum.polyval and UArray.polyval
Poly ==
    /\ call = None
    /\ \E self \in Ids, coeffs \in Coefficients :
         \E out \in Polyval(objs[self], coeffs) :
            call' = Called("polyval", self, NdArray(coeffs), out)
    /\ UNCHANGED <<objs, ctor, notOps>>

\* Unum.to and UArray.to
To ==
    /\ call = None
    /\ \E self \in Ids, units \in Units :
         call' = Called("to", self, UnitArg(units),
                        IF objs[self].kind = "Unum" THEN Unum_to(objs[self], units)
                        ELSE UArray_to(objs[self], units))
    /\ UNCHANGED <<objs, ctor, notOps>>

\* The caller takes the result or the exception and goes on.
Continue ==
    /\ call # None
    /\ call' = None
    /\ UNCHANGED <<objs, ctor, notOps>>

NextOps ==
    \/ Unum_add \/ Unum_sub \/ Unum_mul \/ Unum_truediv \/ Unum_floordiv
    \/ UArray_add \/ UArray_sub \/ UArray_mul \/ UArray_truediv \/ UArray_floordiv
    \/ Pow \/ Log \/ Poly \/ To
    \/ Continue

SpecOps == InitOps /\ [][NextOps]_vars

(***************************************************************************)
(* SpecPair: binary operators on two Unums of any two sample counts        *)
(***************************************************************************)

\* The sample counts the two Unums are constructed with.
PairCounts == {1, 5, 6}

\* Unum(2.0, 0.5, n_samples=n1) and Unum(1.0, 0, n_samples=n2)
InitPair ==
    /\ \E n1 \in PairCounts, n2 \in PairCounts :
         objs = <<Unum_init(Num(2 * Scale), Num(Scale \div 2), None, n1,
                            DefaultSigFigs, "median"),
                  Unum_init(Num(Scale), Num(0), None, n2, DefaultSigFigs, "median")>>
    /\ ctor = objs
    /\ call = None
    /\ prep = None
    /\ pool = None
    /\ SampleIdle
    /\ QuantIdle
    /\ InitIdle

NextPair ==
    \/ Unum_add \/ Unum_sub \/ Unum_mul \/ Unum_truediv \/ Unum_floordiv
    \/ Continue

SpecPair == InitPair /\ [][NextPair]_vars

(***************************************************************************)
(* SpecPow: powers of a Unum without error, with the default sample count  *)
(***************************************************************************)

\* The nominal values raised to a power: -2.5, -2.0, ..., 2.5.
PowBases == {b * (Scale \div 2) : b \in -5..5}

\* Unum(x, 0) and Unum(x, 0, 0) in unit u for every base x, with sig_figs 1
\* and the default.
ExactUnumsIn(u) ==
    {Unum_init(Qty(x, u), Qty(0, u), lower, DefaultSamples, sig_figs, "median") :
        x \in PowBases, lower \in {None, Some(Qty(0, u))},
        sig_figs \in {1, DefaultSigFigs}}

ExactUnums == ExactUnumsIn(None) \cup ExactUnumsIn(Metre)

InitPow ==
    /\ \E self \in ExactUnums : objs = <<self>>
    /\ ctor = objs
    /\ call = None
    /\ prep = None
    /\ pool = None
    /\ SampleIdle
    /\ QuantIdle
    /\ InitIdle

NextPow == Pow \/ Continue

SpecPow == InitPow /\ [][NextPow]_vars

(***************************************************************************)
(* SpecPrep: UArray._prep_dist on bounded distributions                    *)
(***************************************************************************)

MaxAxis == 3     \* longest axis of dist1 and of dist2

\* dist1 of shape (elements, nsamples); only its shape is read.
Dist1(elements, nsamples) ==
    Arr([e \in 1..elements |-> [k \in 1..nsamples |-> 0]], 2, None, FALSE)

\* The one-dimensional arrays of the given length, plain and in metres.
Dist2s(len) ==
    {Arr(<<row>>, 1, u, FALSE) : row \in [1..len -> {Scale, 2 * Scale}], u \in {None, Metre}}

InitPrep ==
    /\ \E elements \in 1..MaxAxis, nsamples \in 1..MaxAxis, len \in 1..MaxAxis :
         \E dist2 \in Dist2s(len) :
            prep = Some([pc |-> "call", dist1 |-> Dist1(elements, nsamples),
                         dist2 |-> dist2, out |-> dist2])
    /\ objs = <<>>
    /\ ctor = <<>>
    /\ call = None
    /\ pool = None
    /\ SampleIdle
    /\ QuantIdle
    /\ InitIdle

\* dist2 = self._prep_dist(dist1, dist2)
PrepDist ==
    /\ prep # None
    /\ Val(prep).pc = "call"
    /\ prep' = Some([Val(prep) EXCEPT !.pc = "returned",
                                      !.out = prep_dist(Val(prep).dist1, Val(prep).dist2)])
    /\ UNCHANGED <<pool, notPrep>>

NextPrep == PrepDist

SpecPrep == InitPrep /\ [][NextPrep]_vars

(***************************************************************************)
(* SpecPool: UArray.sample_from_errors on its thread pool                  *)
(***************************************************************************)

PoolSize == 8        \* ThreadPool(8)
PoolSamples == 2     \* self.n of the arrays sampled here

\* The UArrays sampled: 1..MaxAxis elements 2.0, 4.0, 6.0, ... each with
\* errors of 0.5, so that samples of different elements never coincide.
PoolSelves ==
    {UArray_init(Qty([e \in 1..elements |-> 2 * e * Scale], u),
                 Qty([e \in 1..elements |-> Scale \div 2], u), None,
                 PoolSamples, DefaultSigFigs, "median") :
        elements \in 1..MaxAxis, u \in {None, Metre}}

\* The rows error_sample(nom, up, low, self.n, self.units) can return for
\* element e.
TaskRows(self, e) ==
    [1..self.n -> OpSupport(self._nominal[e], self._upper[e], self._lower[e])]

\* Mutant of StarmapResult: the results are listed as the tasks finished.
StarmapResult_as_finished(results, finished) ==
    [k \in DOMAIN results |-> results[finished[k]]]

\* pool.starmap(error_sample, quantities): the results in the order of
\* quantities, whatever the order the tasks finished in.
StarmapResult(results, finished) == [e \in DOMAIN results |-> results[e]]

\* The state of a call:
\*   pc        "call", "starmap" (the caller is blocked in it) or "returned",
\*   pending   the tasks not yet taken by a worker, in the order of quantities,
\*   running   the tasks a worker is running,
\*   calls     how many times error_sample was started for each element,
\*   results   what the task of each element returned (<<>> before it has),
\*   finished  the tasks in the order they finished,
\*   out       what sample_from_errors returned.
InitPool ==
    /\ \E self \in PoolSelves :
         pool = [pc |-> "call", self |-> self, pending |-> <<>>, running |-> {},
                 calls |-> [e \in DOMAIN self._nominal |-> 0],
                 results |-> [e \in DOMAIN self._nominal |-> <<>>],
                 finished |-> <<>>, out |-> None]
    /\ prep = None
    /\ objs = <<>>
    /\ ctor = <<>>
    /\ call = None
    /\ SampleIdle
    /\ QuantIdle
    /\ InitIdle

\* quantities = [...]; pool = ThreadPool(8); pool.starmap(error_sample, quantities)
\* is entered: one task per element is queued.
Starmap ==
    /\ pool.pc = "call"
    /\ pool' = [pool EXCEPT !.pc = "starmap",
                            !.pending = [e \in DOMAIN pool.self._nominal |-> e]]
    /\ UNCHANGED <<prep, notPrep>>

\* A free worker takes the next task.
WorkerStart ==
    /\ pool.pc = "starmap"
    /\ pool.pending # <<>>
    /\ Cardinality(pool.running) < PoolSize
    /\ pool' = [pool EXCEPT !.pending = Tail(@),
                            !.running = @ \cup {Head(pool.pending)},
                            !.calls[Head(pool.pending)] = @ + 1]
    /\ UNCHANGED <<prep, notPrep>>

\* The error_sample call of a running task returns.
WorkerFinish ==
    /\ pool.pc = "starmap"
    /\ \E e \in pool.running :
         \E row \in TaskRows(pool.self, e) :
            pool' = [pool EXCEPT !.running = @ \ {e},
                                 !.results[e] = row,
                                 !.finished = Append(@, e)]
    /\ UNCHANGED <<prep, notPrep>>

\* starmap returns once every task has finished; then pool.close(),
\* pool.join() and return np.asarray(dists) * (self.units or 1).
StarmapReturns ==
    /\ pool.pc = "starmap"
    /\ pool.pending = <<>>
    /\ pool.running = {}
    /\ pool' = [pool EXCEPT !.pc = "returned",
                            !.out = Some(Arr(StarmapResult(pool.results, pool.finished),
                                             2, pool.self.units, FALSE))]
    /\ UNCHANGED <<prep, notPrep>>

NextPool == Starmap \/ WorkerStart \/ WorkerFinish \/ StarmapReturns

SpecPool == InitPool /\ [][NextPool]_vars

(***************************************************************************)
(* Claims about error_sample (SpecSample)                                  *)
(***************************************************************************)

OnlyLow == args.low_lim # None /\ args.up_lim = None
OnlyUp == args.low_lim = None /\ args.up_lim # None
BothLimits == args.low_lim # None /\ args.up_lim # None

\* C1: when error_sample returns and only one limit was given, every returned
\* sample satisfies it (>= low_lim, respectively <= up_lim), in the symmetric
\* and in the asymmetric branch alike.
C1_OneLimitEnforced ==
    pc = "done" =>
        /\ OnlyLow => \A i \in DOMAIN samples : samples[i] >= Val(args.low_lim)
        /\ OnlyUp => \A i \in DOMAIN samples : samples[i] <= Val(args.up_lim)

\* C1 witness: a returned asymmetric call whose lower limit lies above the
\* nominal value, whose loop redrew some but not all of its samples, and
\* whose samples are all at or above the limit.
C1_Witness ==
    /\ pc = "done"
    /\ OnlyLow
    /\ args.upper # args.lower
    /\ redrawn # {}
    /\ redrawn # DOMAIN samples
    /\ Val(args.low_lim) > args.nominal
    /\ \A i \in DOMAIN samples : samples[i] >= Val(args.low_lim)

\* C2: when error_sample returns and both limits were given, low_lim <= up_lim,
\* every returned sample lies in [low_lim, up_lim].
C2_BothLimitsEnforced ==
    (pc = "done" /\ BothLimits /\ Val(args.low_lim) <= Val(args.up_lim)) =>
        \A i \in DOMAIN samples :
            Val(args.low_lim) <= samples[i] /\ samples[i] <= Val(args.up_lim)

(***************************************************************************)
(* Claims about get_quantiles (SpecQuant)                                  *)
(***************************************************************************)

\* The rows of the distribution handed to get_quantiles.
QRows == DOMAIN qin.dist.v

\* Element e of a returned value: the value itself for a Unum.
Elem(x, e) == IF qin.self.kind = "Unum" THEN x.v ELSE x.v[e]

\* The average of the sorted samples at 1-based positions n/2 and n/2+1 for an
\* even n, the sorted sample at position (n+1)/2 for an odd n.
MiddleOrderStatistic(dist) ==
    LET o == Ordered(dist)
        n == Len(dist)
    IN  IF n % 2 = 0 THEN (o[n \div 2] + o[n \div 2 + 1]) \div 2 ELSE o[(n + 1) \div 2]

\* C7: the center get_quantiles returns is the (rounded) average of the two
\* middle order statistics for an even n and the middle one for an odd n.
C7_CenterIsMiddle ==
    qpc = "returned" =>
        \A e \in QRows :
            Elem(qout.param, e) = Round(MiddleOrderStatistic(qin.dist.v[e]), qin.self.sig_figs)

RECURSIVE NumDigits(_)
NumDigits(m) == IF m < 10 THEN 1 ELSE 1 + NumDigits(m \div 10)

\* x rounded to the given number of significant figures.
RoundSig(x, figures) ==
    IF x = 0 THEN 0
    ELSE RoundToMultiple(x, Pow10(NumDigits(Abs(x)) - figures))

\* C8: each of the three values get_quantiles returns is rounded to sig_figs
\* significant figures.
C8_RoundedToSigFigs ==
    (qpc = "returned" /\ qin.self.sig_figs > 0) =>
        \A e \in QRows :
            LET raw == RawQuantiles(qin.dist.v[e])
            IN  /\ Elem(qout.param, e) = RoundSig(raw[1], qin.self.sig_figs)
                /\ Elem(qout.upper, e) = RoundSig(raw[2], qin.self.sig_figs)
                /\ Elem(qout.lower, e) = RoundSig(raw[3], qin.self.sig_figs)

\* C10: whenever get_quantiles returns, the upper and the lower spread are
\* >= 0, and so are the upper and lower errors of the value built from them.
C10_SpreadsNonNegative ==
    qpc = "returned" =>
        \A e \in QRows :
            /\ Elem(qout.upper, e) >= 0
            /\ Elem(qout.lower, e) >= 0
            /\ Elem(Val(made).upper, e) >= 0
            /\ Elem(Val(made).lower, e) >= 0

\* C10 witness: a returned call on an even number of samples whose spreads
\* are both positive.
C10_Witness ==
    /\ qpc = "returned"
    /\ Len(qin.dist.v[1]) % 2 = 0
    /\ Elem(qout.upper, 1) > 0
    /\ Elem(qout.lower, 1) > 0
    /\ Elem(Val(made).lower, 1) > 0

(***************************************************************************)
(* Claims about the constructors (SpecInit)                                *)
(***************************************************************************)

\* C9: a constructed Unum or UArray stores the lower error the caller
\* supplied, a supplied zero included, takes the upper error only when lower
\* is omitted, and its _lower is the magnitude of the stored lower.
C9_LowerStoredAsSupplied ==
    cpc = "returned" =>
        /\ cargs.lower # None => Val(cobj).lower = Val(cargs.lower)
        /\ cargs.lower = None => Val(cobj).lower = cargs.upper
        /\ Val(cobj)._lower = Magnitude(Val(cobj).lower)

(***************************************************************************)
(* Claims about the operators (SpecOps)                                    *)
(***************************************************************************)

BinaryOps == {"add", "sub", "mul", "truediv", "floordiv"}

\* The call on record is a call of one of the given operators.
Calling(ops) == call # None /\ Val(call).op \in ops

\* self of the call on record, as it was when the call was made.
CallSelf == Val(call).before[Val(call).self]

\* The units the operand of the call on record carries.
OperandUnits ==
    IF Val(call).other.kind = "object"
    THEN Val(call).before[Val(call).other.id].units
    ELSE Val(call).other.arr.unit

\* C3: no operator of Unum or UArray changes a field of self or of the other
\* operand: after any sequence of operator calls every value of the heap has
\* the fields it was constructed with.
C3_OperandsNeverMutated == objs = ctor

\* C4: a binary operator that fails because of a unit mismatch, a shape
\* mismatch or an invalid operand type fails before any sample is drawn and
\* leaves the fields of both operands as they were before the call.
C4_FailsBeforeSampling ==
    (Calling(BinaryOps) /\ Val(call).out.why \in {"units", "shape", "type"}) =>
        /\ Val(call).out.sampled = 0
        /\ objs = Val(call).before

\* The operand of the call on record is a plain array or a UArray.
ArrayShaped == Val(call).other.kind = "ndarray" \/ IsUArray(Val(call).before, Val(call).other)

\* C5: a UArray binary operator given a plain array or a UArray of another
\* shape than self.shape fails with the shape-mismatch error, and an int,
\* float, Unum or bare quantity operand passes the shape check.
C5_ShapeMismatchRejected ==
    (Calling(BinaryOps) /\ CallSelf.kind = "UArray") =>
        /\ (ArrayShaped /\ OtherShape(Val(call).before, Val(call).other) # Shape(CallSelf.nominal))
              => (Val(call).out.raised = "ValueError" /\ Val(call).out.why = "shape")
        /\ (Val(call).other.kind \in {"number", "Quantity"}
            \/ IsUnum(Val(call).before, Val(call).other))
              => Val(call).out.why \notin {"shape", "type"}

UnitCheckedOps == {"add", "sub", "floordiv"}
UncheckedOps == {"mul", "truediv", "pow", "log10", "polyval"}

\* Add, subtract and floor-divide raise whenever the units of the operands
\* are not equivalent and sample only when they are.
CheckedOpsRequireEquivalence ==
    Calling(UnitCheckedOps) =>
        /\ ~equivalent(CallSelf.units, OperandUnits) => Val(call).out.raised # "no"
        /\ Val(call).out.sampled > 0 => equivalent(CallSelf.units, OperandUnits)

\* C6 as stated: add, subtract and floor-divide raise whenever the units of
\* the operands are not equivalent and proceed only when they are; multiply,
\* divide, power, log10 and polyval never evaluate the equivalence predicate
\* and never fail because of units.
C6_UnitPolicy ==
    /\ CheckedOpsRequireEquivalence
    /\ Calling(UncheckedOps) =>
          /\ ~Val(call).out.checked
          /\ Val(call).out.why \notin {"units", "unit_system"}

\* C6, amended: as above, except that log10 fails inside the unit library,
\* after sampling, exactly when self carries a unit that is not
\* dimensionless; multiply, divide, power and polyval never fail because of
\* units.
C6_UnitPolicyAmended ==
    /\ CheckedOpsRequireEquivalence
    /\ Calling(UncheckedOps) =>
          /\ ~Val(call).out.checked
          /\ Val(call).out.why # "units"
          /\ Val(call).out.why = "unit_system" <=>
                (Val(call).op = "log10" /\ CallSelf.units \notin {None, Dimensionless})

\* A multiplication of a plain value by a value in metres returned a result.
C6_Witness ==
    /\ Calling({"mul"})
    /\ ~equivalent(CallSelf.units, OperandUnits)
    /\ Val(call).out.raised = "no"
    /\ Val(call).out.sampled > 0

(***************************************************************************)
(* Claims about powers of an exact Unum (SpecPow)                          *)
(***************************************************************************)

\* The exponent of the power on record.
CallExp == Val(call).other.arr.v[1][1] \div Scale

\* The power on record is x ** e of a Unum x with upper = lower = 0 and the
\* default sample count.
ExactPowerCalled ==
    /\ Calling({"pow"})
    /\ CallSelf.kind = "Unum"
    /\ CallSelf._upper = 0
    /\ CallSelf._lower = 0
    /\ CallSelf.n = DefaultSamples

LimitUnreachable ==
    \/ args.low_lim # None /\ \A v \in Support(args) : v < Val(args.low_lim)
    \/ args.up_lim # None /\ \A v \in Support(args) : v > Val(args.up_lim)

\* A loop is left in this step.
LeavesLowLoop == pc = "low" /\ pc' # "low"
LeavesUpLoop == pc = "up" /\ pc' # "up"

\* C12: the resampling loops have no attempt cap and are left only when no
\* sample violates the limit; when every value the distribution can produce
\* violates the limit, error_sample never returns.
C12_LoopsOnlyExitWhenClean ==
    /\ [][LeavesLowLoop => LowViolators(args, samples) = {}]_vars
    /\ [][LeavesUpLoop => UpViolators(args, samples) = {}]_vars
    /\ [](LimitUnreachable => pc # "done")

\* The lower-limit loop has redrawn every sample of a distribution that
\* cannot reach the limit and is still in the loop.
C12_Witness ==
    /\ pc = "low"
    /\ LimitUnreachable
    /\ redrawn = DOMAIN samples
    /\ LowViolators(args, samples) = DOMAIN samples

\* C13: when the limits are reachable and redraw outcomes are fair,
\* error_sample eventually returns.
C13_EventuallyReturns ==
    (pc = "draw" /\ ~LimitUnreachable) ~> (pc = "done")

\* error_sample has returned after a lower-limit loop that had to redraw.
C13_Witness ==
    /\ pc = "done"
    /\ ~LimitUnreachable
    /\ args.low_lim # None
    /\ redrawn # {}

\* This step is an iteration of a loop that stays in the loop.
IteratesLow == pc = "low" /\ pc' = "low"
IteratesUp == pc = "up" /\ pc' = "up"

\* C14: an iteration of a resampling loop overwrites only samples that
\* violate the limit being enforced: a sample that satisfies it keeps its
\* value, no position becomes violating, and the vector keeps its n entries.
C14_OnlyViolatorsRedrawn ==
    /\ [][IteratesLow =>
            /\ \A i \in DOMAIN samples \ LowViolators(args, samples) : samples'[i] = samples[i]
            /\ LowViolators(args, samples') \subseteq LowViolators(args, samples)
            /\ Len(samples') = args.n]_vars
    /\ [][IteratesUp =>
            /\ \A i \in DOMAIN samples \ UpViolators(args, samples) : samples'[i] = samples[i]
            /\ UpViolators(args, samples') \subseteq UpViolators(args, samples)
            /\ Len(samples') = args.n]_vars

\* An iteration of the upper-limit loop has redrawn some samples and left
\* others alone.
C14_Witness ==
    /\ pc = "up"
    /\ redrawn # {}
    /\ redrawn # DOMAIN samples
    /\ Len(samples) = args.n

(***************************************************************************)
(* Claims about _prep_dist (SpecPrep)                                      *)
(***************************************************************************)

\* C15: given dist1 of shape (element_count, sample_count) and a
\* one-dimensional dist2 of length L, _prep_dist returns dist2 with shape
\* (L, 1), or with shape (1, L) exactly when L equals sample_count and not
\* element_count; a plain array of length element_count is aligned to the
\* element axis also when element_count = sample_count.
C15_PrepAlignsToElements ==
    (prep # None /\ Val(prep).pc = "returned") =>
        LET dist1 == Val(prep).dist1
            dist2 == Val(prep).dist2
            out == Val(prep).out
            len == NCols(dist2)
            swapped == len = NCols(dist1) /\ len # NRows(dist1)
        IN  /\ out.ndim = 2
            /\ swapped => ShapeOf(out) = <<1, len>>
            /\ ~swapped => ShapeOf(out) = <<len, 1>>
            /\ (dist2.unit = None /\ len = NRows(dist1)) =>
                  /\ ShapeOf(out) = <<len, 1>>
                  /\ \A e \in 1..len : out.v[e][1] = dist2.v[1][e]

(***************************************************************************)
(* Claims about UArray.sample_from_errors (SpecPool)                       *)
(***************************************************************************)

\* C16: sample_from_errors runs exactly one sampling task per element on the
\* pool of 8 workers and returns only after all of them have finished; what
\* it returns has shape (element_count, sample_count) and its row i holds
\* the samples drawn for element i, whatever the order the tasks finished in.
C16_OneTaskPerElement ==
    /\ Cardinality(pool.running) <= PoolSize
    /\ \A e \in DOMAIN pool.calls : pool.calls[e] <= 1
    /\ pool.pc = "returned" =>
          /\ \A e \in DOMAIN pool.calls : pool.calls[e] = 1
          /\ pool.pending = <<>> /\ pool.running = {}
          /\ Len(pool.finished) = Len(pool.self._nominal)
          /\ ShapeOf(Val(pool.out)) = <<Len(pool.self._nominal), pool.self.n>>
          /\ Val(pool.out).unit = pool.self.units
          /\ \A e \in DOMAIN pool.calls :
                /\ Val(pool.out).v[e] = pool.results[e]
                /\ Val(pool.out).v[e] \in TaskRows(pool.self, e)

\* A call on three elements returned although the task of the last element
\* finished first.
C16_Witness ==
    /\ pool.pc = "returned"
    /\ Len(pool.self._nominal) > 1
    /\ pool.finished[1] = Len(pool.self._nominal)

(***************************************************************************)
(* More claims about get_quantiles (SpecQuant)                             *)
(***************************************************************************)

\* Every index get_quantiles reads for nsamples samples lies in 0..nsamples-1.
ReadsInside(nsamples) == \A i \in IndicesRead(nsamples) : 0 <= i /\ i < nsamples

\* That is so for every sample count from 13 to the default.
ReadsInsideFromThirteen == \A nsamples \in 13..DefaultSamples : ReadsInside(nsamples)

\* The sample count of the call on record.
QuantN == Len(qin.dist.v[1])

\* C17: for every sample count n >= 1 get_quantiles either reads all its
\* order statistics inside 0..n-1, as it does for every n >= 13 including
\* the default 10000, or fails with an index error; it never returns a
\* result read at a negative index.
C17_ReadsInsideOrRaises ==
    /\ ReadsInsideFromThirteen
    /\ qpc = "returned" => ReadsInside(QuantN)
    /\ qpc = "raised" => (qout.raised = "IndexError" /\ ~ReadsInside(QuantN))
    /\ (qpc # "call" /\ QuantN >= 13) => qpc = "returned"

\* A call raised although its lower index is negative and would have wrapped.
C17_Witness ==
    /\ qpc = "raised"
    /\ q_lower_idx(QuantN) < 0
    /\ IndexOk(QuantN, q_lower_idx(QuantN))

(***************************************************************************)
(* Claims about two Unum operands (SpecPair)                               *)
(***************************************************************************)

\* C18: in every Unum binary operator applied to two Unums, the two sample
\* distributions that are combined elementwise have the same length, for any
\* pair of sample counts the operands were constructed with.
C18_SameLengthDistributions ==
    (/\ Calling(BinaryOps)
     /\ CallSelf.kind = "Unum"
     /\ IsUnum(Val(call).before, Val(call).other)
     /\ Val(call).out.lens # <<>>)
        => Val(call).out.lens[1] = Val(call).out.lens[2]

====
